---- MODULE Spec2Model ----
(***************************************************************************)
(* Stage orchestration of a multi-stage hyperparameter search:             *)
(*   Stage.run       (flambe/experiment/stage.py)                          *)
(*   Experiment.run  (flambe/experiment/experiment.py)                     *)
(*                                                                         *)
(* A Python dict is modelled as a sequence of entries [k |-> key, p |->    *)
(* value] with pairwise distinct keys: the order of the sequence is the    *)
(* dict's iteration (insertion) order.  A name (dict key, variant name) is *)
(* a sequence of string tokens; the token Sep is the separator "|".        *)
(* The Pipeline class (flambe/experiment/pipeline.py) is not among the     *)
(* available sources: its operations are modelled from the specification.  *)
(***************************************************************************)
EXTENDS Integers, Sequences, FiniteSets, TLC

\* ------------------------------------------------------------------ bounds
\* pipelines in the output mapping of one upstream stage
MaxOut == 2
\* metrics of executed pipelines range over 1..MaxMetric
MaxMetric == 2
\* reduction counts range over 0..MaxK
MaxK == 2
\* local variants of the stage under execution: 0..MaxVariants
MaxVariants == 2

\* ------------------------------------------------------------- dict helpers
Range(s) == {s[i] : i \in 1..Len(s)}

Keys(d) == {d[i].k : i \in 1..Len(d)}

HasKey(d, k) == \E i \in 1..Len(d) : d[i].k = k

Get(d, k) == d[CHOOSE i \in 1..Len(d) : d[i].k = k].p

\* d[k] = p : an existing key keeps its position, a new key goes last
DictSet(d, k, p) ==
    IF HasKey(d, k)
    THEN [i \in 1..Len(d) |-> IF d[i].k = k THEN [k |-> k, p |-> p] ELSE d[i]]
    ELSE Append(d, [k |-> k, p |-> p])

RECURSIVE DictFromSeq(_)
\* a dict built by inserting the entries of a sequence in order
DictFromSeq(s) ==
    IF s = <<>> THEN <<>>
    ELSE DictSet(DictFromSeq(SubSeq(s, 1, Len(s) - 1)), s[Len(s)].k, s[Len(s)].p)

\* s[:n] for n >= 0
Take(s, n) == SubSeq(s, 1, IF n < Len(s) THEN n ELSE Len(s))

RECURSIVE Flatten(_)
\* concatenation of a sequence of sequences
Flatten(ss) ==
    IF ss = <<>> THEN <<>> ELSE Flatten(SubSeq(ss, 1, Len(ss) - 1)) \o ss[Len(ss)]

\* ------------------------------------------------------- Pipeline (spec 3, 4.1)
StageNames == {"a", "b", "c"}

LinkKinds == {"choice", "variant"}

\* metric of a pipeline that has not been executed (None)
NoMetric == 0

EmptyMap == [s \in {} |-> ""]

\* a configuration node: its bound content and the links it contains
Node(id, links) == [id |-> id, links |-> links]

\* a link to stage `name` of the given kind
Link(name, kind) == [name |-> name, kind |-> kind]

\* Pipeline(schemas): a fresh pipeline over `args`, owned by its last stage
NewPipeline(args, task) ==
    [args |-> args, task |-> task, error |-> FALSE, metric |-> NoMetric,
     var_ids |-> EmptyMap, checkpoints |-> EmptyMap]

\* Pipeline({'dependencies': up, name: var}): the upstream pipeline nested
\* under the reserved key, plus this stage's variant under its own name
NestPipeline(up, name, var) ==
    [args |-> (name :> var) @@ up.args, task |-> name, error |-> FALSE,
     metric |-> NoMetric, var_ids |-> up.var_ids, checkpoints |-> up.checkpoints]

\* stage names referenced by the links of the pipeline's nodes
LinkedNames(p) ==
    UNION {{l.name : l \in p.args[s].links} : s \in DOMAIN p.args}

\* every link resolves to a stage of the pipeline
is_subpipeline(p) == LinkedNames(p) \subseteq DOMAIN p.args

\* structural match: identical nodes at every stage present in both
matches(p, q) ==
    \A s \in (DOMAIN p.args) \cap (DOMAIN q.args) : p.args[s] = q.args[s]

\* p.merge(q): union of the stages and of the bookkeeping maps
merge(p, q) ==
    [args |-> p.args @@ q.args, task |-> p.task,
     error |-> p.error \/ q.error, metric |-> p.metric,
     var_ids |-> p.var_ids @@ q.var_ids,
     checkpoints |-> p.checkpoints @@ q.checkpoints]

\* --------------------------------------------- Stage.filter_dependencies
\* line 101: drop the errored pipelines
FilterErrors(d) == SelectSeq(d, LAMBDA e : ~e.p.error)

\* position of a new entry with ties going in front of their equals (an
\* unstable sort)
InsertPosTiesFirst(s, e) ==
    Cardinality({i \in 1..Len(s) : s[i].p.metric > e.p.metric})

\* position of a new entry for an ascending sort (reverse=True left out)
InsertPosAscending(s, e) ==
    Cardinality({i \in 1..Len(s) : s[i].p.metric <= e.p.metric})

\* position of a new entry in a list sorted by metric, descending: after
\* every entry whose metric is at least its own (the sort is stable)
InsertPos(s, e) == Cardinality({i \in 1..Len(s) : s[i].p.metric >= e.p.metric})

InsertDesc(s, e) ==
    SubSeq(s, 1, InsertPos(s, e)) \o <<e>> \o SubSeq(s, InsertPos(s, e) + 1, Len(s))

RECURSIVE SortDesc(_)
\* sorted(reduce.keys(), key=metric, reverse=True), as entries
SortDesc(s) ==
    IF s = <<>> THEN <<>>
    ELSE InsertDesc(SortDesc(SubSeq(s, 1, Len(s) - 1)), s[Len(s)])

\* lines 105-111, keeping every pipeline of the stage (no reduction applied)
ReduceKeepAll(d, stage, k) ==
    SortDesc(SelectSeq(d, LAMBDA e : e.p.task = stage))
        \o SelectSeq(d, LAMBDA e : e.p.task # stage)

\* lines 105-111: one reduction entry (stage, k)
ReduceStage(d, stage, k) ==
    Take(SortDesc(SelectSeq(d, LAMBDA e : e.p.task = stage)), k)
        \o SelectSeq(d, LAMBDA e : e.p.task # stage)

RECURSIVE ApplyReductions(_, _)
\* lines 103-111: the reduction entries, in the order they were declared
ApplyReductions(d, reds) ==
    IF reds = <<>> THEN d
    ELSE ApplyReductions(ReduceStage(d, reds[1].stage, reds[1].k), Tail(reds))

\* filter_dependencies without line 101
FilterKeepErrors(d, reds) == ApplyReductions(d, reds)

filter_dependencies(d, reds) == ApplyReductions(FilterErrors(d), reds)

\* --------------------------------------------------- Stage.merge_variants
\* the representatives (positions in variants) the pipeline matches
MatchedReps(variants, pipe) ==
    {j \in 1..Len(variants) : matches(pipe, variants[j].p)}

\* lines 133-142 with the pipeline never merged: it always starts a group
MergeNever(variants, e) == Append(variants, e)

\* lines 133-142 with a break after the first match
MergeFirstOnly(variants, e) ==
    IF MatchedReps(variants, e.p) = {} THEN DictSet(variants, e.k, e.p)
    ELSE [j \in 1..Len(variants) |->
            IF j = (CHOOSE h \in MatchedReps(variants, e.p) :
                      \A g \in MatchedReps(variants, e.p) : h <= g)
            THEN [k |-> variants[j].k, p |-> merge(e.p, variants[j].p)]
            ELSE variants[j]]

\* lines 133-142 with the test of line 141 left out: the pipeline is merged
\* into its matches and added under its own name as well
MergeAndAdd(variants, e) ==
    DictSet([j \in 1..Len(variants) |->
                IF j \in MatchedReps(variants, e.p)
                THEN [k |-> variants[j].k, p |-> merge(e.p, variants[j].p)]
                ELSE variants[j]],
            e.k, e.p)

\* lines 133-142: one iteration of the outer loop
MergeOne(variants, e) ==
    LET hit == MatchedReps(variants, e.p)
        upd == [j \in 1..Len(variants) |->
                  IF j \in hit
                  THEN [k |-> variants[j].k, p |-> merge(e.p, variants[j].p)]
                  ELSE variants[j]]
    IN  IF hit = {} THEN DictSet(upd, e.k, e.p) ELSE upd

RECURSIVE merge_variants(_)
merge_variants(d) ==
    IF d = <<>> THEN <<>>
    ELSE MergeOne(merge_variants(SubSeq(d, 1, Len(d) - 1)), d[Len(d)])

\* ------------------------------------------------ Stage.construct_pipelines
\* the separator of f"{name}|{var_name}"
Sep == "|"

\* name of the i-th variant of a stage
VarName(stage, i) == <<stage \o ToString(i)>>

\* the variant name alone: the upstream name is left out
JoinNoPrefix(up_name, var_name) == var_name

\* line 187: f"{name}|{var_name}"
Join(up_name, var_name) == up_name \o <<Sep>> \o var_name

\* line 167: the kind recorded for a link; the kind the link has is not read
link_type(link) == "choice"

\* lines 166-171: two links to one stage name recorded with different kinds
LinkTypesDisagree(links) ==
    \E l1, l2 \in links : l1.name = l2.name /\ link_type(l1) # link_type(l2)

\* task.iter_variants(): (var_name, var) for each of the cfg.m local variants
iter_variants(name, cfg) ==
    [i \in 1..cfg.m |-> [k |-> VarName(name, i), p |-> Node(i, cfg.links)]]

\* lines 179-183: no upstream pipeline, each variant alone
FullAlone(name, cfg) ==
    DictFromSeq([i \in 1..cfg.m |->
        [k |-> iter_variants(name, cfg)[i].k,
         p |-> NewPipeline(name :> iter_variants(name, cfg)[i].p, name)]])

\* lines 185-190: every upstream pipeline x every local variant
FullNested(name, cfg, pipelines) ==
    DictFromSeq(Flatten([j \in 1..Len(pipelines) |->
        [i \in 1..cfg.m |->
            [k |-> Join(pipelines[j].k, iter_variants(name, cfg)[i].k),
             p |-> NestPipeline(pipelines[j].p, name,
                                iter_variants(name, cfg)[i].p)]]]))

\* lines 175-194 without line 193: incomplete pipelines are kept
ConstructKeepAll(name, cfg, pipelines) ==
    IF Len(pipelines) = 0 THEN FullAlone(name, cfg)
    ELSE FullNested(name, cfg, pipelines)

\* lines 175-194 (reached when lines 166-171 did not raise)
construct_pipelines(name, cfg, pipelines) ==
    SelectSeq(IF Len(pipelines) = 0 THEN FullAlone(name, cfg)
              ELSE FullNested(name, cfg, pipelines),
              LAMBDA e : is_subpipeline(e.p))

\* ------------------------------------------------------------- Stage state
VARIABLES
    cfg,           \* the stage's own configuration: its links, its m variants
    reductions,    \* self.reductions: entries [stage, k] in declared order
    depsIn,        \* the `dependencies` argument: one mapping per upstream stage
    runner,        \* the search runner's behaviour: "fixed" or "free"
    pc,            \* position of Stage.run
    dependencies,  \* self.dependencies (flattened)
    filtered,      \* result of filter_dependencies
    merged,        \* result of merge_variants
    variants,      \* result of construct_pipelines
    object_ids,    \* the dispatched search tasks, in dispatch order
    results,       \* results[i]: what task i returned, <<>> until it returns
    returned,      \* the tasks that have returned, in the order they completed
    pipelines,     \* the mapping Stage.run returns
    \* ---- Experiment.run
    decl,          \* self.pipeline: the declared stages, in declaration order
    reduce,        \* self.reduce
    idx,           \* position of the loop of line 96 in decl
    stages,        \* the names entered in `stages`, in insertion order
    futDeps,       \* per stage: the stages whose futures its task was passed
    status,        \* per stage: state of its get_stage task
    tasks,         \* per stage: the search tasks its run dispatched
    outputs,       \* per stage: the mapping its task returned
    pcE            \* position of Experiment.run

stageVars == <<cfg, reductions, depsIn, runner, pc, dependencies, filtered,
               merged, variants, object_ids, results, returned, pipelines>>

expVars == <<decl, reduce, idx, stages, futDeps, status, tasks, outputs, pcE>>

vars == <<stageVars, expVars>>

\* the stage under execution
Self == "c"

\* lines 232-238 without var_name: the output path of the stage itself
OutputPathOfStage(name, var_name) == <<"out", name>>

\* lines 232-238: os.path.join(self.env.output_path, self.name, var_name)
OutputPath(name, var_name) == <<"out", name>> \o var_name

\* a pipeline as an upstream stage returns it: bookkeeping filled in
Executed(args, task, m, e) ==
    [args |-> args, task |-> task, error |-> e, metric |-> m,
     var_ids |-> [s \in DOMAIN args |-> VarName(s, args[s].id)],
     checkpoints |-> [s \in DOMAIN args |-> OutputPath(s, VarName(s, args[s].id))]]

\* output entries of stage "a", of an independent stage "b", and of a stage
\* "b" that was itself built on "a"
UpA(i, m, e) ==
    [k |-> VarName("a", i), p |-> Executed("a" :> Node(i, {}), "a", m, e)]

UpB(j, m, e) ==
    [k |-> VarName("b", j), p |-> Executed("b" :> Node(j, {}), "b", m, e)]

UpAB(i, j, m, e) ==
    [k |-> Join(VarName("a", i), VarName("b", j)),
     p |-> Executed(("a" :> Node(i, {}))
                      @@ ("b" :> Node(j, {Link("a", "choice")})), "b", m, e)]

Metrics == 1..MaxMetric

RedEntries(stage) == {[stage |-> stage, k |-> k] : k \in 0..MaxK}

\* reduction mappings over the upstream stages, in either declared order
Reds ==
    {<<>>} \cup {<<r>> : r \in RedEntries("a") \cup RedEntries("b")}
           \cup {<<r, q>> : r \in RedEntries("a"), q \in RedEntries("b")}
           \cup {<<q, r>> : r \in RedEntries("a"), q \in RedEntries("b")}

\* injective sequences over S of length at most n
InjSeqs(S, n) ==
    UNION {{s \in [1..k -> S] : \A i, j \in 1..k : s[i] = s[j] => i = j} :
           k \in 0..n}

ChoiceLinks(names) == {Link(s, "choice") : s \in names}

\* inputs that exercise filtering: metrics and errors vary
OutsA_F ==
    UNION {{[i \in 1..n |-> UpA(i, ms[i], es[i])] :
              ms \in [1..n -> Metrics], es \in [1..n -> BOOLEAN]} :
           n \in 0..MaxOut}

OutsB_F == {<<>>} \cup {<<UpB(1, m, FALSE)>> : m \in Metrics}

InputsF ==
    {[depsIn |-> <<oa, ob>>, reductions |-> r,
      cfg |-> [links |-> ChoiceLinks(IF ob = <<>> THEN {"a"} ELSE {"a", "b"}),
               m |-> 1],
      runner |-> "fixed"] : oa \in OutsA_F, ob \in OutsB_F, r \in Reds}

\* inputs that exercise merging: the stage contents vary
NodeIds == 1..MaxOut

ShapesA == {UpA(i, 1, FALSE) : i \in NodeIds}

ShapesB == {UpB(j, 1, FALSE) : j \in NodeIds}

ShapesAB == {UpAB(i, j, 1, FALSE) : i \in NodeIds, j \in NodeIds}

InputsM ==
    {[depsIn |-> d, reductions |-> <<>>,
      cfg |-> [links |-> ChoiceLinks({"a", "b"}), m |-> 1],
      runner |-> "fixed"] :
       d \in UNION {{<<oa, ob>>, <<ob, oa>>} :
                      oa \in InjSeqs(ShapesA, MaxOut),
                      ob \in InjSeqs(ShapesB, MaxOut)
                               \cup InjSeqs(ShapesAB, MaxOut)}}

\* inputs that exercise pipeline construction: the configuration varies
LinkSets ==
    {{}, ChoiceLinks({"a"}), ChoiceLinks({"a", "b"}), {Link("a", "variant")},
     {Link("a", "choice"), Link("a", "variant")}}

OutsA_C ==
    UNION {{[i \in 1..n |-> UpA(i, 1, e)] : e \in BOOLEAN} : n \in 0..MaxOut}

OutsB_C == {[j \in 1..n |-> UpB(j, 1, FALSE)] : n \in 0..MaxOut}

InputsC ==
    {[depsIn |-> <<oa, ob>>, reductions |-> <<>>,
      cfg |-> [links |-> ls, m |-> m], runner |-> "fixed"] :
       oa \in OutsA_C, ob \in OutsB_C, ls \in LinkSets, m \in 0..MaxVariants}

\* inputs under which the search runner is unconstrained: n upstream
\* pipelines and m local variants, for up to three search tasks
InputsR ==
    {[depsIn |-> <<[i \in 1..nm[1] |-> UpA(i, 1, FALSE)]>>, reductions |-> <<>>,
      cfg |-> [links |-> ChoiceLinks({"a"}), m |-> nm[2]], runner |-> "free"] :
       nm \in {<<1, 1>>, <<2, 1>>, <<3, 1>>, <<1, 2>>}}

\* inputs in which the upstream stages name their outputs alike: an output
\* mapping is keyed by the names the searches of its stage returned
ResultNames == {<<"v1">>, <<"v2">>}

NamedA(n, i) == [k |-> n, p |-> Executed("a" :> Node(i, {}), "a", 1, FALSE)]

NamedB(n, j) == [k |-> n, p |-> Executed("b" :> Node(j, {}), "b", 1, FALSE)]

InputsK ==
    {[depsIn |-> <<oa, ob>>, reductions |-> <<>>,
      cfg |-> [links |-> ChoiceLinks({"a", "b"}), m |-> 1],
      runner |-> "fixed"] :
       oa \in {<<NamedA(n, 1)>> : n \in ResultNames}
                \cup {<<NamedA(<<"v1">>, 1), NamedA(<<"v2">>, 2)>>},
       ob \in {<<NamedB(n, 1)>> : n \in ResultNames}}

Inputs == InputsF \cup InputsM \cup InputsC \cup InputsR \cup InputsK

StageInitState ==
    /\ \E inp \in Inputs :
         /\ cfg = inp.cfg
         /\ reductions = inp.reductions
         /\ depsIn = inp.depsIn
         /\ runner = inp.runner
    /\ pc = "new"
    /\ dependencies = <<>>
    /\ filtered = <<>>
    /\ merged = <<>>
    /\ variants = <<>>
    /\ object_ids = <<>>
    /\ results = <<>>
    /\ returned = <<>>
    /\ pipelines = <<>>

\* ------------------------------------------------------------ Stage actions
\* Stage.__init__, line 83: {name: p for dep in dependencies for name, p in dep.items()}
FlattenDeps(deps) == DictFromSeq(Flatten(deps))

StageInit ==
    /\ pc = "new"
    /\ dependencies' = FlattenDeps(depsIn)
    /\ pc' = "init"
    /\ UNCHANGED expVars
    /\ UNCHANGED <<cfg, reductions, depsIn, runner, filtered, merged, variants,
                   object_ids, results, returned, pipelines>>

\* Stage.run, line 217
RunFilter ==
    /\ pc = "init"
    /\ filtered' = filter_dependencies(dependencies, reductions)
    /\ pc' = "filtered"
    /\ UNCHANGED expVars
    /\ UNCHANGED <<cfg, reductions, depsIn, runner, dependencies, merged,
                   variants, object_ids, results, returned, pipelines>>

\* Stage.run, line 220
RunMerge ==
    /\ pc = "filtered"
    /\ merged' = merge_variants(filtered)
    /\ pc' = "merged"
    /\ UNCHANGED expVars
    /\ UNCHANGED <<cfg, reductions, depsIn, runner, dependencies, filtered,
                   variants, object_ids, results, returned, pipelines>>

\* Stage.run, line 223: construct_pipelines raises at line 170, or returns
RunConstruct ==
    /\ pc = "merged"
    /\ IF LinkTypesDisagree(cfg.links)
       THEN /\ pc' = "raised"
            /\ UNCHANGED variants
       ELSE /\ variants' = construct_pipelines(Self, cfg, merged)
            /\ pc' = "constructed"
    /\ UNCHANGED expVars
    /\ UNCHANGED <<cfg, reductions, depsIn, runner, dependencies, filtered,
                   merged, object_ids, results, returned, pipelines>>

\* lines 224-226 raising instead of returning the empty mapping
RunEmptyRaise ==
    /\ pc = "constructed"
    /\ variants = <<>>
    /\ pc' = "raised"
    /\ UNCHANGED expVars
    /\ UNCHANGED <<cfg, reductions, depsIn, runner, dependencies, filtered,
                   merged, variants, object_ids, results, returned, pipelines>>

\* Stage.run, lines 224-226: nothing to execute
RunEmpty ==
    /\ pc = "constructed"
    /\ variants = <<>>
    /\ pipelines' = <<>>
    /\ pc' = "done"
    /\ UNCHANGED expVars
    /\ UNCHANGED <<cfg, reductions, depsIn, runner, dependencies, filtered,
                   merged, variants, object_ids, results, returned>>

\* Stage.run, lines 229-246: one search task per constructed pipeline
Dispatched(name, vs) ==
    [i \in 1..Len(vs) |->
        [var_name |-> vs[i].k, variant |-> vs[i].p,
         output_path |-> OutputPath(name, vs[i].k)]]

RunDispatch ==
    /\ pc = "constructed"
    /\ variants # <<>>
    /\ object_ids' = Dispatched(Self, variants)
    /\ results' = [i \in 1..Len(variants) |-> <<>>]
    /\ returned' = <<>>
    /\ pc' = "waiting"
    /\ UNCHANGED expVars
    /\ UNCHANGED <<cfg, reductions, depsIn, runner, dependencies, filtered,
                   merged, variants, pipelines>>

\* what search.run may return for a task (run_search, lines 17-28): a
\* mapping from variant name to {schema, var_id, checkpoint, metric, error}
SearchResultAs(task, name, m, e) ==
    <<[k |-> name,
       v |-> [schema |-> task.variant, var_id |-> task.var_name,
              checkpoint |-> task.output_path, metric |-> m, error |-> e]]>>

\* the result named after the variant the task was given
SearchResult(task, m, e) == SearchResultAs(task, task.var_name, m, e)

\* a sub-variant name that the searches of different tasks may both return
SharedName == <<"best">>

SearchResults(task) ==
    IF runner = "free"
    THEN {SearchResult(task, m, e) : m \in Metrics, e \in BOOLEAN}
            \cup {SearchResultAs(task, SharedName, 1, FALSE)}
    ELSE {SearchResult(task, 1, FALSE)}

\* a search task returns; under the fixed runner tasks return in dispatch order
SearchReturn(i) ==
    /\ pc = "waiting"
    /\ i \notin Range(returned)
    /\ runner = "fixed" => \A j \in 1..(i - 1) : j \in Range(returned)
    /\ \E r \in SearchResults(object_ids[i]) :
         results' = [results EXCEPT ![i] = r]
    /\ returned' = Append(returned, i)
    /\ UNCHANGED expVars
    /\ UNCHANGED <<cfg, reductions, depsIn, runner, pc, dependencies, filtered,
                   merged, variants, object_ids, pipelines>>

\* lines 256-261: the bookkeeping of one result entry
Bookkeep(name, v) ==
    [v.schema EXCEPT !.var_ids = (name :> v.var_id) @@ v.schema.var_ids,
                     !.checkpoints = (name :> v.checkpoint) @@ v.schema.checkpoints,
                     !.error = v.error,
                     !.metric = v.metric]

\* lines 250-262 keeping the first pipeline collected under a name
CollectFirstWins(name, res) ==
    LET fl == Flatten(res)
        firsts == SelectSeq([i \in 1..Len(fl) |-> i],
                            LAMBDA i : \A j \in 1..(i - 1) : fl[j].k # fl[i].k)
    IN  [n \in 1..Len(firsts) |->
            [k |-> fl[firsts[n]].k, p |-> Bookkeep(name, fl[firsts[n]].v)]]

\* lines 250-262: the results, in the order of object_ids
Collect(name, res) ==
    DictFromSeq([i \in 1..Len(Flatten(res)) |->
        [k |-> Flatten(res)[i].k, p |-> Bookkeep(name, Flatten(res)[i].v)]])

\* lines 249-264 collecting as soon as one task has returned
RunCollectEarly ==
    /\ pc = "waiting"
    /\ returned # <<>>
    /\ pipelines' = Collect(Self, results)
    /\ pc' = "done"
    /\ UNCHANGED expVars
    /\ UNCHANGED <<cfg, reductions, depsIn, runner, dependencies, filtered,
                   merged, variants, object_ids, results, returned>>

\* Stage.run, lines 249-264: ray.get returns once every task has returned
RunCollect ==
    /\ pc = "waiting"
    /\ Range(returned) = 1..Len(object_ids)
    /\ pipelines' = Collect(Self, results)
    /\ pc' = "done"
    /\ UNCHANGED expVars
    /\ UNCHANGED <<cfg, reductions, depsIn, runner, dependencies, filtered,
                   merged, variants, object_ids, results, returned>>

StageNext ==
    \/ StageInit
    \/ RunFilter
    \/ RunMerge
    \/ RunConstruct
    \/ RunEmpty
    \/ RunDispatch
    \/ \E i \in 1..Len(object_ids) : SearchReturn(i)
    \/ RunCollect

\* Stage.run is not being executed (the experiment specification)
StageIdle ==
    /\ cfg = [links |-> {}, m |-> 0]
    /\ reductions = <<>>
    /\ depsIn = <<>>
    /\ runner = "fixed"
    /\ pc = "off"
    /\ dependencies = <<>>
    /\ filtered = <<>>
    /\ merged = <<>>
    /\ variants = <<>>
    /\ object_ids = <<>>
    /\ results = <<>>
    /\ returned = <<>>
    /\ pipelines = <<>>

\* ------------------------------------------------------- Experiment state
\* a declared stage: its name, whether its schema may produce a Searchable
\* (line 97), the links of its configuration, its number of variants
Declared(name, searchable, linked, m) ==
    [name |-> name, searchable |-> searchable,
     links |-> ChoiceLinks(linked), m |-> m]

\* stage "a" with 3 variants, stage "c" with 2 variants linked to "a",
\* and a reduction to the best pipeline of "a"
ScenarioA ==
    [decl |-> <<Declared("a", TRUE, {}, 3), Declared("c", TRUE, {"a"}, 2)>>,
     reduce |-> <<[stage |-> "a", k |-> 1]>>]

\* declarations of up to three single-variant stages, in any order, each
\* linked to any of the other declared stages; "b" may be non-searchable
NameOrders == InjSeqs(StageNames, 3) \ {<<>>}

GeneralDecls ==
    UNION {{[decl |-> [i \in 1..Len(o) |->
                         Declared(o[i], o[i] # "b" \/ sb, lk[o[i]] \ {o[i]}, 1)],
             reduce |-> <<>>] :
              lk \in [Range(o) -> SUBSET Range(o)], sb \in BOOLEAN} :
           o \in NameOrders}

Experiments == {ScenarioA} \cup GeneralDecls

ExpInitState ==
    /\ \E x \in Experiments : decl = x.decl /\ reduce = x.reduce
    /\ idx = 1
    /\ stages = <<>>
    /\ futDeps = [s \in StageNames |-> <<>>]
    /\ status = [s \in StageNames |-> "none"]
    /\ tasks = [s \in StageNames |-> <<>>]
    /\ outputs = [s \in StageNames |-> <<>>]
    /\ pcE = "loop"

\* Experiment.run is not being executed (the stage specification)
ExpIdle ==
    /\ decl = <<>>
    /\ reduce = <<>>
    /\ idx = 0
    /\ stages = <<>>
    /\ futDeps = [s \in StageNames |-> <<>>]
    /\ status = [s \in StageNames |-> "none"]
    /\ tasks = [s \in StageNames |-> <<>>]
    /\ outputs = [s \in StageNames |-> <<>>]
    /\ pcE = "off"

\* ----------------------------------------------------- Experiment actions
DeclNames(d) == {d[i].name : i \in 1..Len(d)}

DeclOf(d, name) == d[CHOOSE i \in 1..Len(d) : d[i].name = name]

\* the stage names the configuration of `name` links to
DirectLinks(d, name) ==
    IF name \in DeclNames(d) THEN {l.name : l \in DeclOf(d, name).links} ELSE {}

RECURSIVE UpstreamOf(_, _, _)
\* the stages reachable from the set S through links, in at most n steps
UpstreamOf(d, S, n) ==
    IF n = 0 THEN S
    ELSE UpstreamOf(d, S \cup UNION {DirectLinks(d, s) : s \in S}, n - 1)

\* pipeline.sub_pipeline(name).dependencies: everything upstream of name,
\* in declaration order
SubPipelineDependencies(d, name) ==
    SelectSeq([i \in 1..Len(d) |-> d[i].name],
              LAMBDA s : s \in UpstreamOf(d, {name}, Len(d)) \ {name})

\* line 103 without the futures: the task is passed no dependency
NoDependencyIds(d, name, entered) == <<>>

\* line 103 without `if d in stages`: every dependency is waited for
DependencyIdsAll(d, name, entered) == SubPipelineDependencies(d, name)

\* line 103: [stages[d] for d in sub_pipeline.dependencies if d in stages]
DependencyIds(d, name, entered) ==
    SelectSeq(SubPipelineDependencies(d, name), LAMBDA s : s \in Range(entered))

\* lines 97-100 left out: the non-searchable stage is dispatched as well
ExpSkipDispatch ==
    /\ pcE = "loop"
    /\ idx <= Len(decl)
    /\ ~decl[idx].searchable
    /\ futDeps' = [futDeps EXCEPT ![decl[idx].name] =
                      DependencyIds(decl, decl[idx].name, stages)]
    /\ status' = [status EXCEPT ![decl[idx].name] = "pending"]
    /\ stages' = Append(stages, decl[idx].name)
    /\ idx' = idx + 1
    /\ UNCHANGED stageVars
    /\ UNCHANGED <<decl, reduce, tasks, outputs, pcE>>

\* lines 97-100: the schema is known to produce a non-searchable
ExpSkip ==
    /\ pcE = "loop"
    /\ idx <= Len(decl)
    /\ ~decl[idx].searchable
    /\ idx' = idx + 1
    /\ UNCHANGED stageVars
    /\ UNCHANGED <<decl, reduce, stages, futDeps, status, tasks, outputs, pcE>>

\* lines 101-118: the stage is dispatched as a remote task
ExpDispatch ==
    /\ pcE = "loop"
    /\ idx <= Len(decl)
    /\ decl[idx].searchable
    /\ futDeps' = [futDeps EXCEPT ![decl[idx].name] =
                      DependencyIds(decl, decl[idx].name, stages)]
    /\ status' = [status EXCEPT ![decl[idx].name] = "pending"]
    /\ stages' = Append(stages, decl[idx].name)
    /\ idx' = idx + 1
    /\ UNCHANGED stageVars
    /\ UNCHANGED <<decl, reduce, tasks, outputs, pcE>>

\* line 96: the loop is over
ExpLoopEnd ==
    /\ pcE = "loop"
    /\ idx > Len(decl)
    /\ pcE' = "wait"
    /\ UNCHANGED stageVars
    /\ UNCHANGED <<decl, reduce, idx, stages, futDeps, status, tasks, outputs>>

StageCfg(d, name) == [links |-> DeclOf(d, name).links, m |-> DeclOf(d, name).m]

\* get_stage, lines 23-35, and Stage.run up to the dispatch of the search
\* tasks: the task of a stage starts once every future passed to it has
\* resolved; the dependencies it is given and the result of each phase of
\* the run (flattened, filtered, merged, constructed) are values
TaskStart(s) ==
    /\ status[s] = "pending"
    /\ \A d \in Range(futDeps[s]) : status[d] = "done"
    /\ status' = [status EXCEPT ![s] =
          IF LinkTypesDisagree(StageCfg(decl, s).links) THEN "failed" ELSE "running"]
    /\ \E deps \in {[i \in 1..Len(futDeps[s]) |-> outputs[futDeps[s][i]]]} :
       \E flat \in {FlattenDeps(deps)} :
       \E filt \in {filter_dependencies(flat, reduce)} :
       \E merg \in {merge_variants(filt)} :
       \E vs \in {construct_pipelines(s, StageCfg(decl, s), merg)} :
          tasks' = [tasks EXCEPT ![s] =
             IF LinkTypesDisagree(StageCfg(decl, s).links) THEN <<>>
             ELSE Dispatched(s, vs)]
    /\ UNCHANGED stageVars
    /\ UNCHANGED <<decl, reduce, idx, stages, futDeps, outputs, pcE>>

\* the metric is read by the reductions alone (line 109)
ResultMetrics == IF reduce = <<>> THEN {1} ELSE Metrics

\* what the search tasks of stage s may return, in the order of dispatch:
\* one outcome (metric, error) per task
SearchOutcomes(s) ==
    {[i \in 1..Len(tasks[s]) |-> SearchResult(tasks[s][i], ms[i], es[i])] :
        ms \in [1..Len(tasks[s]) -> ResultMetrics],
        es \in [1..Len(tasks[s]) -> BOOLEAN]}

\* Stage.run, lines 249-264: the search tasks have returned, the stage returns
TaskFinish(s) ==
    /\ status[s] = "running"
    /\ status' = [status EXCEPT ![s] = "done"]
    /\ \E res \in SearchOutcomes(s) :
         outputs' = [outputs EXCEPT ![s] = Collect(s, res)]
    /\ UNCHANGED stageVars
    /\ UNCHANGED <<decl, reduce, idx, stages, futDeps, tasks, pcE>>

\* line 122 left out: run returns when the loop is over
ExpWaitNone ==
    /\ pcE = "wait"
    /\ pcE' = "returned"
    /\ UNCHANGED stageVars
    /\ UNCHANGED <<decl, reduce, idx, stages, futDeps, status, tasks, outputs>>

\* line 122: ray.get(list(stages.values()))
ExpWait ==
    /\ pcE = "wait"
    /\ \A s \in Range(stages) : status[s] = "done"
    /\ pcE' = "returned"
    /\ UNCHANGED stageVars
    /\ UNCHANGED <<decl, reduce, idx, stages, futDeps, status, tasks, outputs>>

ExpNext ==
    \/ ExpSkip
    \/ ExpDispatch
    \/ ExpLoopEnd
    \/ \E s \in StageNames : TaskStart(s)
    \/ \E s \in StageNames : TaskFinish(s)
    \/ ExpWait

\* ----------------------------------------------------------- specifications
\* one execution of Stage.run
Init == StageInitState /\ ExpIdle

Next == StageNext

Spec == Init /\ [][Next]_vars

\* one execution of Experiment.run
InitExp == ExpInitState /\ StageIdle

NextExp == ExpNext

SpecExp == InitExp /\ [][NextExp]_vars

\* Experiment.run over the declarations of GeneralDecls when every search
\* task terminates and the scheduler runs what can run: the dispatch loop
\* goes on, a stage task whose futures have resolved starts, a stage whose
\* search tasks were dispatched returns, and ray.get returns once every
\* future has resolved
InitExpFair == InitExp /\ [decl |-> decl, reduce |-> reduce] \in GeneralDecls

SpecExpFair == InitExpFair /\ [][NextExp]_vars /\ WF_vars(NextExp)

\* ================================================================== claims
\* positions of Stage.run at which each phase has produced its result
AfterFilter == pc \in {"filtered", "merged", "raised", "constructed", "waiting", "done"}

AfterMerge == pc \in {"merged", "raised", "constructed", "waiting", "done"}

AfterConstruct == pc \in {"constructed", "waiting", "done"}

\* pipeline p holds every stage of q, with the same node
Covers(p, q) ==
    \A s \in DOMAIN q.args : s \in DOMAIN p.args /\ p.args[s] = q.args[s]

\* position of a declared stage in the declaration
PosOf(name) == CHOOSE i \in 1..Len(decl) : decl[i].name = name

Searchables == {decl[i].name : i \in {n \in 1..Len(decl) : decl[n].searchable}}

Started(s) == status[s] \in {"running", "done"}

\* C1 as claimed: the task of a stage S does not start before the task of
\* any searchable stage D that S links to has completed, wherever S and D
\* stand in the declaration.
C1_Original ==
    \A S \in Range(stages) :
       \A D \in DirectLinks(decl, S) \cap Searchables :
          Started(S) => status[D] = "done"

\* C1 amended: the task of a stage S does not start before the task of any
\* searchable stage D that S depends on (directly or through other stages)
\* and that is declared before S has completed.
C1_DeclaredBeforeOrdered ==
    \A S \in Range(stages) :
       \A D \in (UpstreamOf(decl, {S}, Len(decl)) \ {S}) \cap Searchables :
          (Started(S) /\ PosOf(D) < PosOf(S)) => status[D] = "done"

\* C1 witness: a stage runs search tasks built on the output of an
\* earlier-declared stage it links to, while a third stage is still pending.
C1_Witness ==
    \E S \in Range(stages) : \E D \in DirectLinks(decl, S) \cap Searchables :
       /\ PosOf(D) < PosOf(S)
       /\ status[S] = "running"
       /\ tasks[S] # <<>>
       /\ \E T \in Range(stages) : status[T] = "pending"

\* the upstream pipelines whose run reported an error
Errored == {d \in Range(dependencies) : d.p.error}

\* C2: an upstream pipeline with error = true is in no output of
\* filter_dependencies, of merge_variants or of construct_pipelines, and in
\* no dispatched search task, whatever its metric and the reduction counts.
C2_ErroredNeverPropagates ==
    /\ AfterFilter =>
         \A e \in Range(filtered) :
            ~e.p.error /\ \A d \in Errored : e.k # d.k /\ ~Covers(e.p, d.p)
    /\ AfterMerge =>
         \A e \in Range(merged) :
            ~e.p.error /\ \A d \in Errored : e.k # d.k /\ ~Covers(e.p, d.p)
    /\ AfterConstruct =>
         \A e \in Range(variants) : \A d \in Errored : ~Covers(e.p, d.p)
    /\ \A t \in Range(object_ids) : \A d \in Errored : ~Covers(t.variant, d.p)

\* C2 witness: search tasks are dispatched although an errored upstream
\* pipeline had a metric above that of a surviving pipeline of its stage and
\* would have survived the reduction.
C2_Witness ==
    /\ pc = "waiting"
    /\ \E d \in Errored : \E e \in Range(filtered) :
          /\ e.p.task = d.p.task
          /\ d.p.metric > e.p.metric
          /\ \E r \in Range(reductions) : r.stage = d.p.task /\ r.k = 1

\* the non-errored pipelines of a stage before, and after, the reductions
Candidates(stage) ==
    {d \in Range(dependencies) : ~d.p.error /\ d.p.task = stage}

Kept(stage) == {e \in Range(filtered) : e.p.task = stage}

Min(x, y) == IF x < y THEN x ELSE y

\* C3: for a reduction entry (s, k) over n non-errored pipelines of s,
\* filter_dependencies returns at most min(k, n) pipelines of s, and each
\* returned one has a metric >= that of every discarded one.
C3_TopK ==
    AfterFilter =>
      \A r \in Range(reductions) :
         /\ Kept(r.stage) \subseteq Candidates(r.stage)
         /\ Cardinality(Kept(r.stage)) <= Min(r.k, Cardinality(Candidates(r.stage)))
         /\ \A x \in Kept(r.stage) :
               \A y \in Candidates(r.stage) \ Kept(r.stage) :
                  x.p.metric >= y.p.metric

\* C3 witness: a reduction to one pipeline discarded the pipeline that came
\* first in the mapping and kept a later one with a higher metric.
C3_Witness ==
    /\ pc = "filtered"
    /\ \E r \in Range(reductions) :
          /\ r.k = 1
          /\ Cardinality(Candidates(r.stage)) >= 2
          /\ \E i, j \in 1..Len(dependencies) :
                /\ i < j
                /\ dependencies[i] \in Candidates(r.stage) \ Kept(r.stage)
                /\ dependencies[j] \in Kept(r.stage)

\* C4: filter_dependencies applied to its own output, with the same
\* reductions, returns that output: same keys, same pipelines, same order.
C4_FilterIdempotent ==
    AfterFilter => filter_dependencies(filtered, reductions) = filtered

\* C4 witness: two reduction entries were applied, two surviving pipelines
\* of one stage have equal metrics, and something was dropped.
C4_Witness ==
    /\ pc = "filtered"
    /\ Len(reductions) = 2
    /\ Len(filtered) < Len(dependencies)
    /\ \E i, j \in 1..Len(filtered) :
          /\ i # j
          /\ filtered[i].p.task = filtered[j].p.task
          /\ filtered[i].p.metric = filtered[j].p.metric

\* the representatives after the first i pipelines of the merge input
MergedUpTo(i) ==
    IF i = Len(filtered) THEN merged ELSE merge_variants(SubSeq(filtered, 1, i))

\* the representatives that input pipeline i matched when it was processed
HitsOf(i) == MatchedReps(MergedUpTo(i - 1), filtered[i].p)

FirstOf(S) == CHOOSE j \in S : \A h \in S : j <= h

\* C5 as claimed: an input pipeline is merged into the first representative
\* it matches and into no later one; it starts a group only if it matches none.
C5_Original ==
    pc = "merged" =>
      \A i \in 1..Len(filtered) :
         LET V == MergedUpTo(i - 1)
             W == MergedUpTo(i)
             hit == HitsOf(i)
         IN  IF hit = {} THEN W = Append(V, filtered[i])
             ELSE /\ Len(W) = Len(V)
                  /\ Covers(W[FirstOf(hit)].p, filtered[i].p)
                  /\ \A j \in 1..Len(V) : j # FirstOf(hit) => W[j] = V[j]

\* C5 amended: an input pipeline is merged into every representative it
\* matches, each keeping its key and position; the other representatives
\* are unchanged; it starts a new group, last, only when it matches none.
C5_MergedIntoEveryMatch ==
    pc = "merged" =>
      \A i \in 1..Len(filtered) :
         LET V == MergedUpTo(i - 1)
             W == MergedUpTo(i)
             hit == HitsOf(i)
         IN  IF hit = {} THEN W = Append(V, filtered[i])
             ELSE /\ Len(W) = Len(V)
                  /\ \A j \in 1..Len(V) :
                        /\ W[j].k = V[j].k
                        /\ j \in hit =>
                             /\ Covers(W[j].p, filtered[i].p)
                             /\ Covers(W[j].p, V[j].p)
                             /\ DOMAIN W[j].p.args =
                                  DOMAIN V[j].p.args \cup DOMAIN filtered[i].p.args
                        /\ j \notin hit => W[j] = V[j]

\* C5 witness: an input pipeline matched two representatives and changed both.
C5_Witness ==
    /\ pc = "merged"
    /\ \E i \in 1..Len(filtered) :
          \E j1, j2 \in HitsOf(i) :
             /\ j1 < j2
             /\ MergedUpTo(i)[j1] # MergedUpTo(i - 1)[j1]
             /\ MergedUpTo(i)[j2] # MergedUpTo(i - 1)[j2]

\* the merge input holds outputs of "a" and of "b" that share no stage name
StagesOf(e) == DOMAIN e.p.args

OutputsOf(stage) == {e \in Range(filtered) : StagesOf(e) = {stage}}

IndependentAB ==
    \A e \in Range(filtered) : StagesOf(e) = {"a"} \/ StagesOf(e) = {"b"}

\* C6 as claimed: for independent stages a and b, merge_variants returns
\* len(a_outputs) + len(b_outputs) representatives.
C6_Original ==
    (pc = "merged" /\ IndependentAB) => Len(merged) = Len(filtered)

\* C6 amended: pipelines that share no stage name match, so when a and b
\* both have outputs, merge_variants merges across them and returns fewer
\* than len(a_outputs) + len(b_outputs) representatives, at least one of
\* which holds both stages.
C6_IndependentOutputsMerge ==
    (pc = "merged" /\ IndependentAB
        /\ OutputsOf("a") # {} /\ OutputsOf("b") # {}) =>
      /\ Len(merged) < Len(filtered)
      /\ \E e \in Range(merged) : StagesOf(e) = {"a", "b"}

\* C6 witness: two outputs of a and two of b have been merged.
C6_Witness ==
    /\ pc = "merged"
    /\ IndependentAB
    /\ Cardinality(OutputsOf("a")) >= 2
    /\ Cardinality(OutputsOf("b")) >= 2

\* the links of the configuration name one stage with two different kinds
KindsDisagree(links) ==
    \E l1, l2 \in links : l1.name = l2.name /\ l1.kind # l2.kind

\* C7 as claimed: with two links of different kinds to one upstream stage,
\* construct_pipelines raises and the run dispatches no search task.
C7_Original ==
    KindsDisagree(cfg.links) =>
      /\ pc \notin {"constructed", "waiting", "done"}
      /\ object_ids = <<>>

\* the names the configuration links to, other than the stage itself
LinkedOthers == {l.name : l \in cfg.links} \ {Self}

\* C8 as claimed: with zero upstream pipelines and m local variants,
\* construct_pipelines returns exactly m one-stage pipelines.
C8_Original ==
    (pc = "constructed" /\ merged = <<>>) =>
      /\ Len(variants) = cfg.m
      /\ \A e \in Range(variants) : StagesOf(e) = {Self} /\ is_subpipeline(e.p)

\* C8 amended: with zero upstream pipelines and m local variants,
\* construct_pipelines returns exactly m pipelines when the configuration
\* links to no other stage, and none when it does (upstream all pruned);
\* each returned pipeline holds only this stage and is a sub-pipeline.
C8_AloneVariants ==
    (pc = "constructed" /\ merged = <<>>) =>
      /\ Len(variants) = (IF LinkedOthers = {} THEN cfg.m ELSE 0)
      /\ \A e \in Range(variants) : StagesOf(e) = {Self} /\ is_subpipeline(e.p)
      /\ LinkedOthers = {} =>
           \A i \in 1..cfg.m : variants[i].k = VarName(Self, i)

\* C8 witness: every upstream pipeline was pruned and the stage, which has
\* several variants and links upstream, constructed nothing.
C8_Witness ==
    /\ pc = "constructed"
    /\ merged = <<>>
    /\ dependencies # <<>>
    /\ cfg.m >= 2
    /\ LinkedOthers # {}

\* the pipeline of upstream representative j and local variant i, its name,
\* and whether all its links are resolved
PairPipeline(j, i) ==
    NestPipeline(merged[j].p, Self, iter_variants(Self, cfg)[i].p)

PairName(j, i) == merged[j].k \o <<Sep>> \o iter_variants(Self, cfg)[i].k

Pairs == (1..Len(merged)) \X (1..cfg.m)

Resolved == {pr \in Pairs : is_subpipeline(PairPipeline(pr[1], pr[2]))}

\* C9: with p >= 1 upstream pipelines and m variants construct_pipelines
\* returns at most p * m pipelines: one per pair (upstream, variant) whose
\* links are all resolved, under a name no other pair yields, and none for
\* a pair with an unresolved link.
C9_NestedVariants ==
    (pc = "constructed" /\ Len(merged) >= 1) =>
      /\ Len(variants) <= Len(merged) * cfg.m
      /\ Len(variants) = Cardinality(Resolved)
      /\ \A pr \in Resolved :
            /\ Cardinality({n \in 1..Len(variants) :
                              variants[n].k = PairName(pr[1], pr[2])}) = 1
            /\ Get(variants, PairName(pr[1], pr[2])) = PairPipeline(pr[1], pr[2])
            /\ \A qr \in Pairs : qr # pr =>
                  PairName(qr[1], qr[2]) # PairName(pr[1], pr[2])
      /\ \A pr \in Pairs \ Resolved :
            ~HasKey(variants, PairName(pr[1], pr[2]))

\* C9 witness: several upstream pipelines and several variants, with both
\* resolved and unresolved pairs.
C9_Witness ==
    /\ pc = "constructed"
    /\ Len(merged) >= 2
    /\ cfg.m >= 2
    /\ Cardinality(Resolved) >= 2
    /\ Pairs \ Resolved # {}

\* the 2-stage experiment of scenario A, with no errored run of stage "a"
InScenarioA ==
    /\ decl = ScenarioA.decl
    /\ reduce = ScenarioA.reduce
    /\ \A e \in Range(outputs["a"]) : ~e.p.error

BestOf(d) == {b \in Range(d) : \A e \in Range(d) : b.p.metric >= e.p.metric}

C11_EmptyVariantSet ==
    [][(pc = "constructed" /\ variants = <<>>) =>
          (pc' = "done" /\ pipelines' = <<>> /\ object_ids' = <<>>
              /\ results' = <<>>)]_vars

\* C11 witness: a stage with local variants and upstream pipelines
\* constructed nothing and has returned the empty mapping.
C11_Witness ==
    /\ pc = "done"
    /\ variants = <<>>
    /\ cfg.m >= 1
    /\ dependencies # <<>>
    /\ object_ids = <<>>
    /\ pipelines = <<>>

\* C12: Experiment.run has not returned while the task of a stage retained
\* in the futures map is pending or running: once it has returned, the task
\* of every dispatched stage has completed.
C12_ReturnsAfterAllStages ==
    pcE = "returned" => \A s \in Range(stages) : status[s] = "done"

\* C12 witness: run has returned after three dispatched stages, one built
\* on another, ran search tasks.
C12_Witness ==
    /\ pcE = "returned"
    /\ Len(stages) = 3
    /\ \E s \in Range(stages) : futDeps[s] # <<>> /\ tasks[s] # <<>>
    /\ \A s \in Range(stages) : status[s] = "done"

\* C13: the output path of every dispatched search task is the path of
\* (stage name, variant name), and no two distinct tasks of one experiment,
\* of the same stage or of different stages, have the same output path.
C13_DistinctOutputPaths ==
    /\ \A s \in StageNames : \A i \in 1..Len(tasks[s]) :
          tasks[s][i].output_path = <<"out", s>> \o tasks[s][i].var_name
    /\ \A s, t \in StageNames :
          \A i \in 1..Len(tasks[s]) : \A j \in 1..Len(tasks[t]) :
             (s # t \/ i # j) =>
                tasks[s][i].output_path # tasks[t][j].output_path

\* C13 witness: two stages have each dispatched several search tasks, the
\* tasks of one of them built on a pipeline of the other.
C13_Witness ==
    \E s, t \in Range(stages) :
       /\ s # t
       /\ Len(tasks[s]) >= 2
       /\ Len(tasks[t]) >= 2
       /\ \A i \in 1..Len(tasks[t]) : s \in DOMAIN tasks[t][i].variant.args

\* the declared stages the dispatch loop has gone past
Visited == {decl[i].name : i \in 1..(idx - 1)}

\* C14: a declared stage known to be non-searchable is never dispatched as a
\* stage task, is never entered in the map of stage futures and is never
\* passed as a dependency to another stage; every other declared stage is
\* dispatched exactly once, when the loop reaches it.
C14_NonSearchableSkipped ==
    /\ \A n \in DeclNames(decl) \ Searchables :
          /\ n \notin Range(stages)
          /\ status[n] = "none"
          /\ tasks[n] = <<>>
          /\ \A s \in StageNames : n \notin Range(futDeps[s])
    /\ \A n \in Searchables :
          Cardinality({i \in 1..Len(stages) : stages[i] = n})
             = (IF n \in Visited THEN 1 ELSE 0)
    /\ \A n \in Searchables \cap Visited : status[n] # "none"
    /\ Range(stages) \subseteq Searchables

\* C14 witness: run has returned; a non-searchable stage was declared first
\* and two dispatched stages link to it.
C14_Witness ==
    /\ pcE = "returned"
    /\ Len(decl) = 3
    /\ ~decl[1].searchable
    /\ Len(stages) = 2
    /\ \A s \in Range(stages) : decl[1].name \in DirectLinks(decl, s)

\* the stage names held by the pipeline of a dispatched search task
TaskStages(t) == DOMAIN t.variant.args

\* C15: a stage that links to an upstream stage of which no pipeline is
\* left after filtering (all errored, or nothing was returned upstream)
\* constructs no pipeline, dispatches no search task and returns an empty
\* mapping; and no dispatched search task lacks the pipeline of a stage that
\* its own stage links to.
C15_NoVariantWithoutUpstream ==
    /\ (AfterConstruct /\ \E s \in LinkedOthers :
                              \A e \in Range(filtered) : s \notin StagesOf(e)) =>
          /\ variants = <<>>
          /\ object_ids = <<>>
          /\ pc \in {"constructed", "done"}
          /\ pipelines = <<>>
    /\ \A t \in Range(object_ids) : LinkedOthers \subseteq TaskStages(t)

\* C15 witness: the stage links to "a" and "b"; every pipeline of "a" had
\* errored while "b" had a surviving one; the stage, which has a local
\* variant, has returned the empty mapping without dispatching.
C15_Witness ==
    /\ pc = "done"
    /\ LinkedOthers = {"a", "b"}
    /\ cfg.m >= 1
    /\ \E d \in Range(dependencies) : d.p.task = "a"
    /\ \A d \in Range(dependencies) : d.p.task = "a" => d.p.error
    /\ \E e \in Range(filtered) : e.p.task = "b"
    /\ object_ids = <<>>
    /\ pipelines = <<>>

\* C16 as claimed: the flattened dependency mapping of an initialised stage
\* holds one pipeline per upstream variant: its size is the sum of the sizes
\* of the upstream stages' output mappings, also when two upstream stages
\* use the same variant name.
C16_Original ==
    pc # "new" => Len(dependencies) = Len(Flatten(depsIn))

\* the result entries of the search tasks that have returned: (task, entry)
Entries ==
    UNION {{<<i, r>> : r \in Range(results[i])} : i \in 1..Len(results)}

\* pipeline p carries the four bookkeeping fields of result entry v
BooksOf(p, v) ==
    /\ Self \in DOMAIN p.var_ids /\ p.var_ids[Self] = v.var_id
    /\ Self \in DOMAIN p.checkpoints /\ p.checkpoints[Self] = v.checkpoint
    /\ p.error = v.error
    /\ p.metric = v.metric

\* C17: within Stage.run nothing is collected and no bookkeeping field is
\* written until every dispatched search task has returned; the stage
\* returns only then, and each pipeline it returns carries the var_id,
\* checkpoint, error and metric of one and the same result entry.
C17_CollectAfterWholeBatch ==
    /\ pc # "done" => pipelines = <<>>
    /\ pc = "waiting" =>
          \A t \in Range(object_ids) :
             /\ Self \notin DOMAIN t.variant.var_ids
             /\ Self \notin DOMAIN t.variant.checkpoints
             /\ t.variant.metric = NoMetric
    /\ (pc = "done" /\ object_ids # <<>>) =>
          /\ Range(returned) = 1..Len(object_ids)
          /\ \A i \in 1..Len(results) : results[i] # <<>>
          /\ Keys(pipelines) = {x[2].k : x \in Entries}
          /\ \A e \in Range(pipelines) :
                \E x \in Entries :
                   /\ x[2].k = e.k
                   /\ e.p.args = x[2].v.schema.args
                   /\ BooksOf(e.p, x[2].v)

\* C17 witness: the stage has returned after two search tasks that
\* completed in the reverse of their dispatch order, one with an error.
C17_Witness ==
    /\ pc = "done"
    /\ Len(object_ids) = 2
    /\ returned = <<2, 1>>
    /\ Len(pipelines) = 2
    /\ pipelines[1].p.error
    /\ ~pipelines[2].p.error
    /\ pipelines[1].p.metric # pipelines[2].p.metric

\* the last task, in dispatch order, whose result holds the name
LastWith(name) ==
    CHOOSE j \in 1..Len(results) :
       /\ name \in Keys(results[j])
       /\ \A h \in (j + 1)..Len(results) : name \notin Keys(results[h])

\* the entry of a task's result under the name
ResultOf(res, name) == res[CHOOSE n \in 1..Len(res) : res[n].k = name].v

\* position of task i in the order of completion
CompletedAt(i) == CHOOSE n \in 1..Len(returned) : returned[n] = i

\* C18: when the results of several search tasks of a stage hold the same
\* sub-variant name, the output mapping holds under that name the pipeline
\* of the task dispatched last among them, whatever the order in which the
\* tasks completed.
C18_LastDispatchedWins ==
    (pc = "done" /\ object_ids # <<>>) =>
       \A x \in Entries :
          LET j == LastWith(x[2].k)
              v == ResultOf(results[j], x[2].k)
          IN  /\ HasKey(pipelines, x[2].k)
              /\ Get(pipelines, x[2].k).args = object_ids[j].variant.args
              /\ Get(pipelines, x[2].k).args = v.schema.args
              /\ BooksOf(Get(pipelines, x[2].k), v)
              /\ Get(pipelines, x[2].k).checkpoints[Self] = object_ids[j].output_path

\* C18 witness: two tasks returned the same name for different pipelines,
\* the one dispatched later completed first, and a third name is present.
C18_Witness ==
    /\ pc = "done"
    /\ \E i, j \in 1..Len(results) :
          /\ i < j
          /\ SharedName \in Keys(results[i]) \cap Keys(results[j])
          /\ CompletedAt(j) < CompletedAt(i)
          /\ object_ids[i].variant # object_ids[j].variant
    /\ Len(pipelines) >= 2

\* position in the merge input of the pipeline with the given key
InputPos(k) == CHOOSE i \in 1..Len(filtered) : filtered[i].k = k

\* C19: in the output of merge_variants no two representatives match each
\* other, and every key of the output is a key of the input: the key of the
\* pipeline that started the group, which the representative holds; the
\* representatives stand in the order in which their groups were started.
C19_RepresentativesDisjoint ==
    AfterMerge =>
      /\ \A i, j \in 1..Len(merged) :
            i # j => ~matches(merged[i].p, merged[j].p)
      /\ \A j \in 1..Len(merged) :
            /\ HasKey(filtered, merged[j].k)
            /\ Covers(merged[j].p, Get(filtered, merged[j].k))
            /\ ~HasKey(MergedUpTo(InputPos(merged[j].k) - 1), merged[j].k)
      /\ \A i, j \in 1..Len(merged) :
            i < j => InputPos(merged[i].k) < InputPos(merged[j].k)

\* C19 witness: four pipelines of two stages were merged into two
\* representatives, each of them changed by a merge.
C19_Witness ==
    /\ pc = "merged"
    /\ Len(filtered) = 4
    /\ Len(merged) = 2
    /\ \A j \in 1..2 : merged[j].p # Get(filtered, merged[j].k)

\* position of a dispatched stage in the map of stage futures
EnteredAt(s) == CHOOSE i \in 1..Len(stages) : stages[i] = s

\* every future a stage was passed is that of a stage dispatched before it
FuturesAcyclic ==
    \A s \in Range(stages) :
       \A d \in Range(futDeps[s]) :
          d \in Range(stages) /\ EnteredAt(d) < EnteredAt(s)

AllStagesDone == \A s \in Range(stages) : status[s] = "done"

====
